---------------------------- MODULE Spec2Model ----------------------------
(***************************************************************************)
(* A model of the Emerson/Vertiv R48 rectifier driver (src/rectifier.py)   *)
(* and of its driver application (src/app.py).                             *)
(*                                                                         *)
(* Two parts of the class Rectifier are modelled:                          *)
(*   - the receive path: data_processing and the listener that feeds it,   *)
(*     over the dictionaries the constructor builds (specification SpecRx);*)
(*   - the send path: the operator's setters, the send task with its five  *)
(*     commands, the frame encoder and the supervising loop (SpecTx).      *)
(*                                                                         *)
(* Python values are modelled with their dynamic type: an entry of a       *)
(* dictionary is a number, a string or a dictionary, and an operation on   *)
(* the wrong type raises the exception Python raises.  Floats are exact    *)
(* rationals <<n, d>>; the 32-bit pattern struct.pack('<f', x) produces is *)
(* computed bit by bit (F32Bits).                                          *)
(***************************************************************************)
EXTENDS Integers, Sequences, FiniteSets, TLC

(***************************************************************************)
(* Rational numbers: <<n, d>> with d > 0, in lowest terms.                 *)
(***************************************************************************)
RECURSIVE GCD(_, _)
GCD(a, b) == IF b = 0 THEN a ELSE GCD(b, a % b)

Abs(a) == IF a < 0 THEN -a ELSE a

Rat(n, d) ==
    LET g == GCD(Abs(n), d)
    IN  IF n = 0 THEN <<0, 1>> ELSE <<n \div g, d \div g>>

RInt(n) == <<n, 1>>

RLe(a, b) == a[1] * b[2] <= b[1] * a[2]

RLt(a, b) == a[1] * b[2] < b[1] * a[2]

RMul(a, b) == Rat(a[1] * b[1], a[2] * b[2])

RDiv(a, b) == Rat(a[1] * b[2], a[2] * b[1])

(***************************************************************************)
(* struct.pack('<f', x) followed by struct.unpack('<I', ...): the IEEE-754 *)
(* single-precision bit pattern of x >= 0, rounded to nearest, ties to     *)
(* even.  The model's setpoints are zero or in the normal range.           *)
(***************************************************************************)
Pow2_23 == 2^23

RECURSIVE F32Norm(_, _, _)
F32Norm(n, d, e) ==
    IF n >= 2 * d THEN F32Norm(n, 2 * d, e + 1)
    ELSE IF n < d THEN F32Norm(2 * n, d, e - 1)
    ELSE <<n, d, e>>

RECURSIVE F32Mant(_, _, _, _)
F32Mant(q, r, d, k) ==
    IF k = 0 THEN <<q, r>>
    ELSE IF 2 * r >= d THEN F32Mant(2 * q + 1, 2 * r - d, d, k - 1)
    ELSE F32Mant(2 * q, 2 * r, d, k - 1)

F32Bits(x) ==
    IF x[1] = 0 THEN 0
    ELSE LET nde == F32Norm(x[1], x[2], 0)
             qr  == F32Mant(1, nde[1] - nde[2], nde[2], 23)
             up  == \/ 2 * qr[2] > nde[2]
                    \/ (2 * qr[2] = nde[2] /\ qr[1] % 2 = 1)
             q   == IF up THEN qr[1] + 1 ELSE qr[1]
             e   == IF q = 2 * Pow2_23 THEN nde[3] + 1 ELSE nde[3]
             m   == IF q = 2 * Pow2_23 THEN 0 ELSE q - Pow2_23
         IN  (e + 127) * Pow2_23 + m

(***************************************************************************)
(* float_to_bytearray: hex() of the bit pattern, lstrip('0x'), then        *)
(* bytearray.fromhex.  hex() writes the most significant digit first and   *)
(* no leading zero, so lstrip removes the "0x" prefix only, except for the *)
(* pattern 0 ("0x0"), of which nothing is left.  fromhex raises ValueError *)
(* on an odd number of digits.  The result is [err, bytes].                *)
(***************************************************************************)
RECURSIVE NHex(_)
NHex(b) == IF b < 16 THEN 1 ELSE 1 + NHex(b \div 16)

RECURSIVE BytesOf(_, _)
BytesOf(b, n) ==
    IF n = 0 THEN <<>> ELSE Append(BytesOf(b \div 256, n - 1), b % 256)

\* Mutant: the bytes of the pattern, least significant first.
RECURSIVE BytesOfLsbFirst(_, _)
BytesOfLsbFirst(b, n) ==
    IF n = 0 THEN <<>> ELSE <<b % 256>> \o BytesOfLsbFirst(b \div 256, n - 1)

HexToBytesLsbFirst(bits) ==
    IF bits = 0 THEN [err |-> "none", bytes |-> <<>>]
    ELSE IF NHex(bits) % 2 = 1 THEN [err |-> "ValueError", bytes |-> <<>>]
    ELSE [err |-> "none", bytes |-> BytesOfLsbFirst(bits, NHex(bits) \div 2)]

HexToBytes(bits) ==
    IF bits = 0 THEN [err |-> "none", bytes |-> <<>>]
    ELSE IF NHex(bits) % 2 = 1 THEN [err |-> "ValueError", bytes |-> <<>>]
    ELSE [err |-> "none", bytes |-> BytesOf(bits, NHex(bits) \div 2)]

float_to_bytearray(f) == HexToBytes(F32Bits(f))


(***************************************************************************)
(* Python values held in the dictionaries: a number (a rational), a string *)
(* or a dictionary {'Value': n}.  One record shape carries all three.      *)
(***************************************************************************)
PyNum(r) == [t |-> "num", n |-> r, s |-> ""]

PyStr(str) == [t |-> "str", n |-> <<0, 1>>, s |-> str]

PyDict(r) == [t |-> "dict", n |-> r, s |-> ""]

IsNum(p) == p.t = "num"

\* float == <entry>: equal only to a number of the same value.
PyEq(v, p) == IsNum(p) /\ p.n = v

Fields ==
    {"Output_Voltage", "Output_Current_Value", "Output_Current_Limit",
     "Temperature", "Input_Voltage"}

\* Class constants of Rectifier.
OUTPUT_CURRENT_RATED_VALUE == <<125, 2>>
OUTPUT_CURRENT_RATED_PERCENTAGE_MIN == 10
OUTPUT_CURRENT_RATED_PERCENTAGE_MAX == 121
OUTPUT_CURRENT_RATED_PERCENTAGE == 121
OUTPUT_VOLTAGE_MIN == <<41, 1>>
OUTPUT_VOLTAGE_MAX == <<117, 2>>
OUTPUT_CURRENT_MIN == <<11, 2>>
OUTPUT_CURRENT_MAX == OUTPUT_CURRENT_RATED_VALUE
TEMPERATURE_MIN == -40
TEMPERATURE_MAX == 60
INPUT_VOLTAGE_MIN == -40
INPUT_VOLTAGE_MAX == 60
MAX_COUNT_UNCHANGED_DATA == 32
MAX_COUNT_INVALID_DATA == 32

(***************************************************************************)
(* The constructor builds ONE dictionary, readDictionnary, whose entries   *)
(* are the dictionaries {'Value': 0}, and binds the four attributes        *)
(* Readout, Counter_Invalid, Status and Counter_Unchanged to that same     *)
(* object.  The heap maps an object to its entries; the four attributes    *)
(* are references into it.  Received_Timestamps is assigned nowhere.       *)
(***************************************************************************)
\* Mutant: the entries are the numbers 0 instead of the dictionaries {'Value': 0}.
readDictionnaryEntryNumber == PyNum(<<0, 1>>)

readDictionnaryEntry == PyDict(<<0, 1>>)

readDictionnary == [f \in Fields |-> readDictionnaryEntry]

Readout == "readDictionnary"
Counter_Invalid == "readDictionnary"
Status == "readDictionnary"
Counter_Unchanged == "readDictionnary"

Objects == {Readout, Counter_Invalid, Status, Counter_Unchanged}

SetItem(h, ref, f, val) == [h EXCEPT ![ref][f] = val]

\* The arguments the listener passes for each field (value_min, value_max).
FieldMin(f) ==
    CASE f = "Output_Voltage" -> OUTPUT_VOLTAGE_MIN
      [] f = "Output_Current_Value" -> OUTPUT_CURRENT_MIN
      [] f = "Output_Current_Limit" -> OUTPUT_CURRENT_MIN
      [] f = "Temperature" -> RInt(TEMPERATURE_MIN)
      [] f = "Input_Voltage" -> RInt(INPUT_VOLTAGE_MIN)

FieldMax(f) ==
    CASE f = "Output_Voltage" -> OUTPUT_VOLTAGE_MAX
      [] f = "Output_Current_Value" -> OUTPUT_CURRENT_MAX
      [] f = "Output_Current_Limit" -> OUTPUT_CURRENT_MAX
      [] f = "Temperature" -> RInt(TEMPERATURE_MAX)
      [] f = "Input_Voltage" -> RInt(INPUT_VOLTAGE_MAX)

(***************************************************************************)
(* data_processing.  A state of the receive path is [heap, ts]; the result *)
(* adds exc, the exception the call raised ("none" when it returned).      *)
(* Statements executed before a raise keep their effect.                   *)
(***************************************************************************)
\* self.Counter_Invalid[f] += 1, then the threshold test and the status
\* (lines 277-281 with word = 'LOW', lines 284-288 with word = 'HIGH').
CountInvalid(st, f, word) ==
    IF ~IsNum(st.heap[Counter_Invalid][f])
    THEN [heap |-> st.heap, ts |-> st.ts, exc |-> "TypeError"]
    ELSE LET c  == st.heap[Counter_Invalid][f].n
             h1 == SetItem(st.heap, Counter_Invalid, f, PyNum(Rat(c[1] + c[2], c[2])))
         IN  IF ~IsNum(h1[Counter_Invalid][f])
             THEN [heap |-> h1, ts |-> st.ts, exc |-> "TypeError"]
             ELSE IF RLe(RInt(MAX_COUNT_INVALID_DATA), h1[Counter_Invalid][f].n)
                  THEN [heap |-> SetItem(h1, Status, f, PyStr(word)),
                        ts |-> st.ts, exc |-> "none"]
                  ELSE [heap |-> h1, ts |-> st.ts, exc |-> "none"]

\* The branch of line 290: the sample equals the stored readout.
CountUnchanged(st, f) ==
    IF ~IsNum(st.heap[Counter_Unchanged][f])
    THEN [heap |-> st.heap, ts |-> st.ts, exc |-> "TypeError"]
    ELSE LET c  == st.heap[Counter_Unchanged][f].n
             h1 == SetItem(st.heap, Counter_Unchanged, f, PyNum(Rat(c[1] + c[2], c[2])))
         IN  IF ~IsNum(h1[Counter_Unchanged][f])
             THEN [heap |-> h1, ts |-> st.ts, exc |-> "TypeError"]
             ELSE IF RLe(RInt(MAX_COUNT_UNCHANGED_DATA), h1[Counter_Unchanged][f].n)
                  THEN [heap |-> SetItem(h1, Status, f, PyStr("STUCK")),
                        ts |-> st.ts, exc |-> "none"]
                  ELSE [heap |-> h1, ts |-> st.ts, exc |-> "none"]

\* The branch of lines 298-309: a new, different value.  The first
\* statement reads the attribute Received_Timestamps.
StoreReadout(st, f, v, unixtime) ==
    IF ~st.ts.defined
    THEN [heap |-> st.heap, ts |-> st.ts, exc |-> "AttributeError"]
    ELSE LET t1 == [st.ts EXCEPT !.at[f] = unixtime]
             h1 == SetItem(st.heap, Readout, f, PyNum(v))
             h2 == SetItem(h1, Status, f, PyStr("NORMAL"))
             h3 == SetItem(h2, Counter_Unchanged, f, PyNum(<<0, 1>>))
         IN  [heap |-> h3, ts |-> t1, exc |-> "none"]

\* Lines 282-309: "if value_received > value_max: ... else: ...".
AboveOrElse(st, f, v, value_max, unixtime) ==
    IF RLt(value_max, v) THEN CountInvalid(st, f, "HIGH")
    ELSE IF PyEq(v, st.heap[Readout][f]) THEN CountUnchanged(st, f)
    ELSE StoreReadout(st, f, v, unixtime)

\* Mutant: the status is first written under the fixed key 'Output_Voltage'.
data_processing_fixed_key(st, f, v, value_min, value_max, unixtime) ==
    LET s0 == [heap |-> SetItem(st.heap, Status, "Output_Voltage", PyStr("NORMAL")),
               ts |-> st.ts]
    IN  IF RLt(v, value_min)
        THEN LET r == CountInvalid(s0, f, "LOW")
             IN  IF r.exc # "none" THEN r
                 ELSE AboveOrElse([heap |-> r.heap, ts |-> r.ts], f, v, value_max, unixtime)
        ELSE AboveOrElse(s0, f, v, value_max, unixtime)

\* Lines 271-309.  The test of line 275 is an "if" of its own: a sample
\* below value_min goes on to the "else" of line 289.
data_processing(st, f, v, value_min, value_max, unixtime) ==
    IF RLt(v, value_min)
    THEN LET r == CountInvalid(st, f, "LOW")
         IN  IF r.exc # "none" THEN r
             ELSE AboveOrElse([heap |-> r.heap, ts |-> r.ts], f, v, value_max, unixtime)
    ELSE AboveOrElse(st, f, v, value_max, unixtime)

(***************************************************************************)
(* The listener.  struct.unpack('>f', data[4:8]): the value of a 32-bit    *)
(* pattern given most significant byte first (zero or a normal number).    *)
(***************************************************************************)
RECURSIVE Pow2(_)
Pow2(k) == IF k = 0 THEN 1 ELSE 2 * Pow2(k - 1)

unpack_be_float(b) ==
    LET sign == b[1] \div 128
        e    == (b[1] % 128) * 2 + b[2] \div 128
        m    == (b[2] % 128) * 65536 + b[3] * 256 + b[4]
        mag  == IF e = 0 /\ m = 0 THEN <<0, 1>>
                ELSE IF e >= 150 THEN Rat((Pow2_23 + m) * Pow2(e - 150), 1)
                ELSE Rat(Pow2_23 + m, Pow2(150 - e))
    IN  IF sign = 1 THEN <<-mag[1], mag[2]>> ELSE mag

OUTPUT_POWER_RATED == 3000

\* postprocessingDictionnary (line 109)
postprocessingDictionnary ==
    [Output_Power |-> [Value |-> <<0, 1>>, Percent_Of_Rated |-> <<0, 1>>,
                       Percent_Of_Limit |-> <<0, 1>>],
     Output_Current |-> [Percent_Of_Rated |-> <<0, 1>>, Percent_Of_Limit |-> <<0, 1>>]]

\* Lines 320-332 of data_analysis: every operand is read as entry['Value'].
\* An assignment made before an exception is kept.
Postprocess(st, mode, post) ==
    LET ocv == st[Readout]["Output_Current_Value"]
        ocl == st[Readout]["Output_Current_Limit"]
        ov  == st[Readout]["Output_Voltage"]
        p1  == [post EXCEPT !.Output_Current.Percent_Of_Rated =
                    RMul(RDiv(ocv.n, OUTPUT_CURRENT_RATED_VALUE), RInt(100))]
    IN  IF ocv.t # "dict" THEN [mode |-> mode, post |-> post, exc |-> "TypeError"]
        ELSE IF ocl.t # "dict" THEN [mode |-> mode, post |-> p1, exc |-> "TypeError"]
        ELSE IF ocl.n[1] = 0
             THEN [mode |-> mode, post |-> p1, exc |-> "ZeroDivisionError"]
        ELSE LET p2 == [p1 EXCEPT !.Output_Current.Percent_Of_Limit =
                            RMul(RDiv(ocv.n, ocl.n), RInt(100))]
             IN  IF ov.t # "dict" THEN [mode |-> mode, post |-> p2, exc |-> "TypeError"]
                 ELSE LET pw == RMul(ov.n, ocv.n)
                      IN  [mode |-> mode,
                           post |-> [p2 EXCEPT
                               !.Output_Power.Value = pw,
                               !.Output_Power.Percent_Of_Rated =
                                   RMul(RDiv(pw, RInt(OUTPUT_POWER_RATED)), RInt(100)),
                               !.Output_Power.Percent_Of_Limit =
                                   RMul(pw, p2.Output_Current.Percent_Of_Limit)],
                           exc |-> "none"]

\* data_analysis (lines 312-332).  Line 314 multiplies and compares the
\* entries themselves: anything but two numbers raises TypeError.
data_analysis(st, mode, post) ==
    LET ocv == st[Readout]["Output_Current_Value"]
        ocl == st[Readout]["Output_Current_Limit"]
    IN  IF ~(IsNum(ocv) /\ IsNum(ocl))
        THEN [mode |-> mode, post |-> post, exc |-> "TypeError"]
        ELSE Postprocess(st,
                         IF RLt(RMul(<<19, 20>>, ocl.n), ocv.n)
                         THEN "Current_Limit" ELSE "Voltage",
                         post)

\* msg.data[3] -> field_name (the cases of lines 343-358).
SelectorField(sel) ==
    CASE sel = 1 -> "Output_Voltage"
      [] sel = 2 -> "Output_Current_Value"
      [] sel = 3 -> "Output_Current_Limit"
      [] sel = 4 -> "Temperature"
      [] sel = 5 -> "Input_Voltage"
      [] OTHER -> ""

\* The body of __can_listener_store (lines 337-358) on the frame data.
ListenerBody(st, data, unixtime) ==
    IF data[1] = 65 /\ SelectorField(data[4]) # ""
    THEN LET f == SelectorField(data[4])
         IN  data_processing(st, f, unpack_be_float(SubSeq(data, 5, 8)),
                             FieldMin(f), FieldMax(f), unixtime)
    ELSE [heap |-> st.heap, ts |-> st.ts, exc |-> "none"]

\* def __can_listener_store(self): one parameter.  can.Notifier calls a
\* listener with the message: the bound method receives (self, msg).
ListenerParams == 1
NotifierArgs == 2

can_listener_store(st, data, unixtime) ==
    IF NotifierArgs # ListenerParams
    THEN [heap |-> st.heap, ts |-> st.ts, exc |-> "TypeError"]
    ELSE ListenerBody(st, data, unixtime)

(***************************************************************************)
(* The command encoders.  Each returns [exc, frames]: the exception raised *)
(* ("none" when it returned) and the data of the frames it handed to       *)
(* __send_can_message (none, or one).                                      *)
(***************************************************************************)
NoFrame == [exc |-> "none", frames |-> <<>>]

\* data = [0x03, 0xF0, 0x00, p, *b]
Command(p, enc) ==
    IF enc.err # "none" THEN [exc |-> enc.err, frames |-> <<>>]
    ELSE [exc |-> "none", frames |-> << <<3, 240, 0, p>> \o enc.bytes >>]

\* Mutant: only the lower bound is tested.
set_voltage_no_upper(voltage, fixed) ==
    IF RLe(OUTPUT_VOLTAGE_MIN, voltage)
    THEN Command(IF ~fixed THEN 33 ELSE 36, float_to_bytearray(voltage))
    ELSE NoFrame

\* __set_voltage (lines 447-454)
set_voltage(voltage, fixed) ==
    IF RLe(OUTPUT_VOLTAGE_MIN, voltage) /\ RLe(voltage, OUTPUT_VOLTAGE_MAX)
    THEN Command(IF ~fixed THEN 33 ELSE 36, float_to_bytearray(voltage))
    ELSE NoFrame

\* __set_current_percentage (lines 462-470)
set_current_percentage(current, fixed) ==
    IF /\ RLe(RInt(OUTPUT_CURRENT_RATED_PERCENTAGE_MIN), current)
       /\ RLe(current, RInt(OUTPUT_CURRENT_RATED_PERCENTAGE_MAX))
    THEN Command(IF ~fixed THEN 34 ELSE 25,
                 float_to_bytearray(RDiv(current, RInt(100))))
    ELSE NoFrame

\* Mutant: the current is passed on as if it were the percentage.
set_current_value_unconverted(current, fixed) ==
    IF RLe(OUTPUT_CURRENT_MIN, current) /\ RLe(current, OUTPUT_CURRENT_MAX)
    THEN set_current_percentage(current, fixed)
    ELSE NoFrame

\* __set_current_value (lines 478-484)
set_current_value(current, fixed) ==
    IF RLe(OUTPUT_CURRENT_MIN, current) /\ RLe(current, OUTPUT_CURRENT_MAX)
    THEN set_current_percentage(
             RMul(RDiv(current, OUTPUT_CURRENT_RATED_VALUE),
                  RInt(OUTPUT_CURRENT_RATED_PERCENTAGE)), fixed)
    ELSE NoFrame

\* __walk_in (lines 488-495): the float bytes are appended to the 8 bytes.
walk_in(time, enable) ==
    IF ~enable
    THEN [exc |-> "none", frames |-> << <<3, 240, 0, 50, 0, 0, 0, 0>> >>]
    ELSE LET enc == float_to_bytearray(time)
         IN  IF enc.err # "none" THEN [exc |-> enc.err, frames |-> <<>>]
             ELSE [exc |-> "none",
                   frames |-> << <<3, 240, 0, 50, 0, 1, 0, 0>> \o enc.bytes >>]

\* __limit_input (lines 499-502)
limit_input(current) == Command(26, float_to_bytearray(current))

\* __restart_after_overvoltage (lines 506-511)
restart_after_overvoltage(enable) ==
    IF ~enable
    THEN [exc |-> "none", frames |-> << <<3, 240, 0, 57, 0, 0, 0, 0>> >>]
    ELSE [exc |-> "none", frames |-> << <<3, 240, 0, 57, 0, 1, 0, 0>> >>]

(***************************************************************************)
(* The send task.  Its position is the command it issues next; the order   *)
(* of the statements of __can_send_loop is the successor of each position. *)
(***************************************************************************)
\* Mutant: the walk-in command is issued before the input current limit.
NextStepWalkInFirst(step) ==
    CASE step = "voltage" -> "current"
      [] step = "current" -> "walkin"
      [] step = "walkin" -> "input"
      [] step = "input" -> "restart"
      [] step = "restart" -> "done"

NextStep(step) ==
    CASE step = "voltage" -> "current"
      [] step = "current" -> "input"
      [] step = "input" -> "walkin"
      [] step = "walkin" -> "restart"
      [] step = "restart" -> "done"

\* The constructor's writeDictionnary (line 106).  Source "" stands for the
\* key 'Source', which the constructor does not create.
writeDictionnary ==
    [Output_Voltage |-> [Value |-> <<0, 1>>, Fixed |-> FALSE],
     Output_Current_Limit |-> [Value |-> <<0, 1>>, Percentage |-> <<0, 1>>,
                               Fixed |-> FALSE, Source |-> ""],
     Input_Current_Limit |-> [Value |-> <<0, 1>>, Enable |-> FALSE],
     Walk_In |-> [Enable |-> FALSE, Time |-> <<0, 1>>],
     Restart_After_Overvoltage |-> [Enable |-> FALSE]]

(***************************************************************************)
(* Inputs of the send path: the operator's requests.                       *)
(***************************************************************************)
VoltageInputs == {RInt(40), RInt(41), <<117, 2>>, RInt(60)}

PercentageInputs == {RInt(5), RInt(10), RInt(50), RInt(121), RInt(130)}

ValueInputs == {RInt(5), <<11, 2>>, <<125, 4>>, <<125, 2>>, RInt(70)}

InputCurrentInputs == {RInt(0), RInt(10)}

WalkInTimes == {RInt(0), RInt(5)}

(***************************************************************************)
(* Inputs of the receive path.                                             *)
(***************************************************************************)
MaxTime == 2
MaxRun == 33

\* Per field: a sample below the range, two inside, one above.
Samples(f) ==
    CASE f = "Output_Voltage" -> {RInt(40), RInt(51), RInt(52), RInt(60)}
      [] f = "Output_Current_Value" -> {RInt(5), RInt(10), RInt(20), RInt(70)}
      [] f = "Output_Current_Limit" -> {RInt(5), RInt(10), RInt(20), RInt(70)}
      [] f = "Temperature" -> {RInt(-50), RInt(0), RInt(25), RInt(70)}
      [] f = "Input_Voltage" -> {RInt(-50), RInt(0), RInt(30), RInt(70)}

\* Response frames: data[0] is 0x41 or not, a selector 1..6, and the payload
\* of 52.0 or 70.0, most significant byte first.
Payloads == {<<66, 80, 0, 0>>, <<66, 140, 0, 0>>}

Frames ==
    {<<h, 240, 0, sel>> \o p : h \in {65, 66}, sel \in 1..6, p \in Payloads}

VARIABLES
    heap,                 \* object -> its entries (field -> Python value)
    Received_Timestamps,  \* the attribute: [defined, at]
    call,                 \* the last operation: its name, arguments, exception
    pre,                  \* the heap before the last operation
    run,                  \* consecutive data_processing calls with one field and value
    Operating_Mode,       \* self.Operating_Mode
    Postprocessing,       \* self.Postprocessing
    Settings,             \* self.Settings
    pc,                   \* "init" before run(), then the send task's position
    tx,                   \* this send cycle's calls of __send_can_message: [data, sent]
    requested,            \* the operator's last current-limit request
    tasks,                \* the live tasks of the event loop: [kind, at, timer, cur, bus]
    gather,               \* the gather awaited by __loop: [send, recv, exc]
    Debug,                \* self.Debug
    handle,               \* the bus open in the main thread: "closed", "open"
                          \* (__receive_can_message) or "send" (__send_can_message)
    awaiting,             \* response frames the device has still to send
    inbound,              \* frames of this receive window: [delivered, tracked]
    faults                \* bus faults so far

rxvars == <<heap, Received_Timestamps, pre, run, Operating_Mode, Postprocessing>>

txvars == <<Settings, pc, tx, requested>>

loopvars == <<tasks, gather, Debug, handle, awaiting, inbound, faults>>

vars == <<heap, Received_Timestamps, call, pre, run, Operating_Mode, Postprocessing,
         Settings, pc, tx, requested, tasks, gather, Debug, handle, awaiting,
         inbound, faults>>

NoGather == [send |-> FALSE, recv |-> FALSE, exc |-> FALSE]

NoInbound == [delivered |-> 0, tracked |-> 0]

\* Before run(): no event loop, no task, no bus.
NoLoop ==
    /\ tasks = <<>>
    /\ gather = NoGather
    /\ Debug = FALSE
    /\ handle = "closed"
    /\ awaiting = 0
    /\ inbound = NoInbound
    /\ faults = 0

NoCall == [op |-> "", field |-> "", value |-> <<0, 1>>, fixed |-> FALSE, exc |-> "none"]

\* The state after Rectifier.__init__.
Init ==
    /\ heap = [o \in Objects |-> readDictionnary]
    /\ Received_Timestamps = [defined |-> FALSE, at |-> [f \in Fields |-> 0]]
    /\ call = NoCall
    /\ pre = [o \in Objects |-> readDictionnary]
    /\ run = [field |-> "", value |-> <<0, 1>>, n |-> 0]
    /\ Operating_Mode = ""
    /\ Postprocessing = postprocessingDictionnary
    /\ Settings = writeDictionnary
    /\ pc = "init"
    /\ tx = <<>>
    /\ requested = [src |-> "", value |-> <<0, 1>>, fixed |-> FALSE]
    /\ NoLoop

\* data_processing called for one decoded sample, with the bounds the
\* listener passes for the field.
DataProcessing ==
    \E f \in Fields : \E v \in Samples(f) : \E unixtime \in 1..MaxTime :
        LET r == data_processing([heap |-> heap, ts |-> Received_Timestamps],
                                 f, v, FieldMin(f), FieldMax(f), unixtime)
        IN  /\ heap' = r.heap
            /\ Received_Timestamps' = r.ts
            /\ call' = [op |-> "data_processing", field |-> f, value |-> v,
                        fixed |-> FALSE, exc |-> r.exc]
            /\ pre' = heap
            /\ run' = IF run.field = f /\ run.value = v
                      THEN [run EXCEPT !.n = IF run.n < MaxRun THEN run.n + 1 ELSE MaxRun]
                      ELSE [field |-> f, value |-> v, n |-> 1]
            /\ UNCHANGED <<Operating_Mode, Postprocessing, txvars, loopvars>>

\* The notifier delivers one inbound frame to the listener.
CanListenerStore ==
    \E data \in Frames : \E unixtime \in 1..MaxTime :
        LET r == can_listener_store([heap |-> heap, ts |-> Received_Timestamps],
                                    data, unixtime)
        IN  /\ heap' = r.heap
            /\ Received_Timestamps' = r.ts
            /\ call' = [op |-> "can_listener_store", field |-> SelectorField(data[4]),
                        value |-> unpack_be_float(SubSeq(data, 5, 8)),
                        fixed |-> data[1] = 65, exc |-> r.exc]
            /\ pre' = heap
            /\ UNCHANGED <<run, Operating_Mode, Postprocessing, txvars, loopvars>>

\* data_analysis called on the stored readouts.
DataAnalysis ==
    LET r == data_analysis(heap, Operating_Mode, Postprocessing)
    IN  /\ Operating_Mode' = r.mode
        /\ Postprocessing' = r.post
        /\ call' = [op |-> "data_analysis", field |-> "", value |-> <<0, 1>>,
                    fixed |-> FALSE, exc |-> r.exc]
        /\ pre' = heap
        /\ UNCHANGED <<heap, Received_Timestamps, run, txvars, loopvars>>

NextRx == DataProcessing \/ CanListenerStore \/ DataAnalysis

SpecRx == Init /\ [][NextRx]_vars

(***************************************************************************)
(* The send path.  The operator's setters are called before run(), as in   *)
(* app.py: run() enters asyncio.run and does not return.                   *)
(***************************************************************************)
OpCall(name, v, fixed, exc) ==
    [op |-> name, field |-> "", value |-> v, fixed |-> fixed, exc |-> exc]

\* set_output_voltage (lines 401-403)
SetOutputVoltage ==
    /\ pc = "init"
    /\ \E voltage \in VoltageInputs : \E fixed \in BOOLEAN :
        /\ Settings' = [Settings EXCEPT !.Output_Voltage.Value = voltage,
                                        !.Output_Voltage.Fixed = fixed]
        /\ call' = OpCall("set_output_voltage", voltage, fixed, "none")
    /\ UNCHANGED <<rxvars, loopvars, pc, tx, requested>>

\* set_output_current_limit_percentage (lines 411-414): writes 'Value'.
SetOutputCurrentLimitPercentage ==
    /\ pc = "init"
    /\ \E current \in PercentageInputs : \E fixed \in BOOLEAN :
        /\ Settings' = [Settings EXCEPT !.Output_Current_Limit.Value = current,
                                        !.Output_Current_Limit.Fixed = fixed,
                                        !.Output_Current_Limit.Source = "Percentage"]
        /\ requested' = [src |-> "Percentage", value |-> current, fixed |-> fixed]
        /\ call' = OpCall("set_output_current_limit_percentage", current, fixed, "none")
    /\ UNCHANGED <<rxvars, loopvars, pc, tx>>

\* set_output_current_limit_value (lines 421-424)
SetOutputCurrentLimitValue ==
    /\ pc = "init"
    /\ \E current \in ValueInputs : \E fixed \in BOOLEAN :
        /\ Settings' = [Settings EXCEPT !.Output_Current_Limit.Value = current,
                                        !.Output_Current_Limit.Fixed = fixed,
                                        !.Output_Current_Limit.Source = "Value"]
        /\ requested' = [src |-> "Value", value |-> current, fixed |-> fixed]
        /\ call' = OpCall("set_output_current_limit_value", current, fixed, "none")
    /\ UNCHANGED <<rxvars, loopvars, pc, tx>>

\* set_walk_in (lines 427-429)
SetWalkIn ==
    /\ pc = "init"
    /\ \E time \in WalkInTimes : \E enable \in BOOLEAN :
        /\ Settings' = [Settings EXCEPT !.Walk_In.Enable = enable,
                                        !.Walk_In.Time = time]
        /\ call' = OpCall("set_walk_in", time, enable, "none")
    /\ UNCHANGED <<rxvars, loopvars, pc, tx, requested>>

\* set_input_current_limit (lines 432-433)
SetInputCurrentLimit ==
    /\ pc = "init"
    /\ \E current \in InputCurrentInputs :
        /\ Settings' = [Settings EXCEPT !.Input_Current_Limit.Value = current]
        /\ call' = OpCall("set_input_current_limit", current, FALSE, "none")
    /\ UNCHANGED <<rxvars, loopvars, pc, tx, requested>>

\* set_restart_after_overvoltage (lines 436-437)
SetRestartAfterOvervoltage ==
    /\ pc = "init"
    /\ \E enable \in BOOLEAN :
        /\ Settings' = [Settings EXCEPT !.Restart_After_Overvoltage.Enable = enable]
        /\ call' = OpCall("set_restart_after_overvoltage", <<0, 1>>, enable, "none")
    /\ UNCHANGED <<rxvars, loopvars, pc, tx, requested>>

\* run (lines 141-146): the loop starts the first send task.
Run ==
    /\ pc = "init"
    /\ pc' = "voltage"
    /\ call' = OpCall("run", <<0, 1>>, FALSE, "none")
    /\ UNCHANGED <<rxvars, loopvars, Settings, tx, requested>>

\* The infinite loop of app.py (lines 18-33): new setpoints every 5 s.  It
\* follows Charger.run(debug=True) in the program's only thread, so it is
\* entered when run() has returned; __loop is a while True without a break,
\* and no step of the model sets pc to "returned".
AppInfiniteLoop ==
    /\ pc = "returned"
    /\ \E voltage \in VoltageInputs : \E current \in ValueInputs :
        /\ Settings' = [Settings EXCEPT !.Output_Voltage.Value = voltage,
                                        !.Output_Voltage.Fixed = FALSE,
                                        !.Output_Current_Limit.Value = current,
                                        !.Output_Current_Limit.Fixed = FALSE,
                                        !.Output_Current_Limit.Source = "Value"]
        /\ requested' = [src |-> "Value", value |-> current, fixed |-> FALSE]
        /\ call' = OpCall("set_output_current_limit_value", current, FALSE, "none")
    /\ UNCHANGED <<rxvars, loopvars, pc, tx>>

\* __send_can_message (lines 159-167) for the frames of one command: the
\* bus sends the frame, or raises can.CanError, which is caught.
Transmit(r, ok) ==
    tx' = tx \o [i \in 1..Len(r.frames) |-> [data |-> r.frames[i], sent |-> ok]]

AfterStep(r) == IF r.exc # "none" THEN "raised" ELSE NextStep(pc)

\* Line 186.
SendVoltage ==
    /\ pc = "voltage"
    /\ LET r == set_voltage(Settings.Output_Voltage.Value, Settings.Output_Voltage.Fixed)
       IN  /\ \E ok \in BOOLEAN : Transmit(r, ok)
           /\ pc' = AfterStep(r)
           /\ call' = OpCall("__set_voltage", Settings.Output_Voltage.Value,
                             Settings.Output_Voltage.Fixed, r.exc)
    /\ UNCHANGED <<rxvars, loopvars, Settings, requested>>

\* Lines 190-202: the command, then the mirror of the representation sent.
SendCurrentLimit ==
    /\ pc = "current"
    /\ LET ocl == Settings.Output_Current_Limit
       IN  IF ocl.Source = ""
           THEN /\ pc' = "raised"
                /\ call' = OpCall("__can_send_loop", <<0, 1>>, FALSE, "KeyError")
                /\ UNCHANGED <<Settings, tx>>
           ELSE LET r == IF ocl.Source = "Percentage"
                         THEN set_current_percentage(ocl.Percentage, ocl.Fixed)
                         ELSE set_current_value(ocl.Value, ocl.Fixed)
                IN  /\ \E ok \in BOOLEAN : Transmit(r, ok)
                    /\ pc' = AfterStep(r)
                    /\ Settings' =
                         IF r.exc # "none" THEN Settings
                         ELSE IF ocl.Source = "Percentage"
                         THEN [Settings EXCEPT !.Output_Current_Limit.Value =
                                 RMul(RDiv(ocl.Percentage, RInt(OUTPUT_CURRENT_RATED_PERCENTAGE)),
                                      OUTPUT_CURRENT_RATED_VALUE)]
                         ELSE [Settings EXCEPT !.Output_Current_Limit.Percentage =
                                 RMul(RDiv(ocl.Value, OUTPUT_CURRENT_RATED_VALUE),
                                      RInt(OUTPUT_CURRENT_RATED_PERCENTAGE))]
                    /\ call' = OpCall(IF ocl.Source = "Percentage"
                                      THEN "__set_current_percentage"
                                      ELSE "__set_current_value",
                                      IF ocl.Source = "Percentage"
                                      THEN ocl.Percentage ELSE ocl.Value,
                                      ocl.Fixed, r.exc)
    /\ UNCHANGED <<rxvars, loopvars, requested>>

\* Line 207.
SendLimitInput ==
    /\ pc = "input"
    /\ LET r == limit_input(Settings.Input_Current_Limit.Value)
       IN  /\ \E ok \in BOOLEAN : Transmit(r, ok)
           /\ pc' = AfterStep(r)
           /\ call' = OpCall("__limit_input", Settings.Input_Current_Limit.Value,
                             FALSE, r.exc)
    /\ UNCHANGED <<rxvars, loopvars, Settings, requested>>

\* Line 212.
SendWalkIn ==
    /\ pc = "walkin"
    /\ LET r == walk_in(Settings.Walk_In.Time, Settings.Walk_In.Enable)
       IN  /\ \E ok \in BOOLEAN : Transmit(r, ok)
           /\ pc' = AfterStep(r)
           /\ call' = OpCall("__walk_in", Settings.Walk_In.Time,
                             Settings.Walk_In.Enable, r.exc)
    /\ UNCHANGED <<rxvars, loopvars, Settings, requested>>

\* Lines 217-222: the last command, then the task sleeps and returns.
SendRestartAfterOvervoltage ==
    /\ pc = "restart"
    /\ LET r == restart_after_overvoltage(Settings.Restart_After_Overvoltage.Enable)
       IN  /\ \E ok \in BOOLEAN : Transmit(r, ok)
           /\ pc' = AfterStep(r)
           /\ call' = OpCall("__restart_after_overvoltage", <<0, 1>>,
                             Settings.Restart_After_Overvoltage.Enable, r.exc)
    /\ UNCHANGED <<rxvars, loopvars, Settings, requested>>

\* __loop (lines 170-176): the gather has returned, or has raised and the
\* exception is dropped; the loop starts the next send task.
Loop ==
    /\ pc \in {"done", "raised"}
    /\ pc' = "voltage"
    /\ tx' = <<>>
    /\ call' = OpCall("__loop", <<0, 1>>, FALSE, "none")
    /\ UNCHANGED <<rxvars, loopvars, Settings, requested>>

NextTx ==
    \/ SetOutputVoltage
    \/ SetOutputCurrentLimitPercentage
    \/ SetOutputCurrentLimitValue
    \/ SetWalkIn
    \/ SetInputCurrentLimit
    \/ SetRestartAfterOvervoltage
    \/ Run
    \/ SendVoltage
    \/ SendCurrentLimit
    \/ SendLimitInput
    \/ SendWalkIn
    \/ SendRestartAfterOvervoltage
    \/ Loop

SpecTx == Init /\ [][NextTx]_vars

(***************************************************************************)
(* The voltage encoder on its own: __set_voltage applied to one voltage of *)
(* 39.5, 39.6, ... 60.5 V and one value of fixed.                          *)
(***************************************************************************)
EncVoltages == {Rat(k, 10) : k \in 395..605}

InitEnc ==
    /\ heap = [o \in Objects |-> readDictionnary]
    /\ Received_Timestamps = [defined |-> FALSE, at |-> [f \in Fields |-> 0]]
    /\ \E v \in EncVoltages : \E fixed \in BOOLEAN :
           call = OpCall("__set_voltage", v, fixed, "none")
    /\ pre = [o \in Objects |-> readDictionnary]
    /\ run = [field |-> "", value |-> <<0, 1>>, n |-> 0]
    /\ Operating_Mode = ""
    /\ Postprocessing = postprocessingDictionnary
    /\ Settings = writeDictionnary
    /\ pc = "init"
    /\ tx = <<>>
    /\ requested = [src |-> "", value |-> <<0, 1>>, fixed |-> FALSE]
    /\ NoLoop

EncodeVoltage ==
    /\ pc = "init"
    /\ call.op = "__set_voltage"
    /\ LET r == set_voltage(call.value, call.fixed)
       IN  /\ Transmit(r, TRUE)
           /\ call' = [call EXCEPT !.exc = r.exc]
    /\ pc' = "encoded"
    /\ UNCHANGED <<rxvars, loopvars, Settings, requested>>

NextEnc == EncodeVoltage

SpecEnc == InitEnc /\ [][NextEnc]_vars

(***************************************************************************)
(* The event loop of run(): __loop, the tasks it gathers, the bus of the   *)
(* receive side and the notifier thread.  The clock ticks once per         *)
(* INTERVAL_BETWEEN_CAN_MESSAGES; code between two awaits takes no time.   *)
(* A bus operation succeeds, raises can.CanError (caught where the code    *)
(* catches it) or raises another exception, at most MaxFaults times; the   *)
(* device answers a read request with up to MaxResponses frames.           *)
(***************************************************************************)
INTERVAL_SEND_DATA == 1
INTERVAL_RECEIVE_DATA == 1
INTERVAL_BETWEEN_CAN_MESSAGES == <<1, 5>>

MaxFaults == 1
MaxResponses == 1

\* asyncio.sleep(seconds), in ticks.
Ticks(seconds) == RDiv(RInt(seconds), INTERVAL_BETWEEN_CAN_MESSAGES)[1]

\* bus: "" or, while the task is inside a with block and holds the bus it
\* opened, how the block will be left: "ok", or "raise" by an exception
\* that is not caught there.
Task(kind, at) == [kind |-> kind, at |-> at, timer |-> 0, cur |-> TRUE, bus |-> ""]

\* asyncio.gather(self.__can_send_loop(), self.__can_receive_loop())
NewTasks == << Task("send", "voltage"), Task("recv", "open") >>

Remove(seq, i) == SubSeq(seq, 1, i - 1) \o SubSeq(seq, i + 1, Len(seq))

\* The awaited gather has a result: both children returned, or one raised.
Resolved == gather.exc \/ (gather.send /\ gather.recv)

\* Lines 196 and 202: the representation that was not sent is recomputed.
Mirror(S) ==
    LET ocl == S.Output_Current_Limit
    IN  IF ocl.Source = "Percentage"
        THEN [S EXCEPT !.Output_Current_Limit.Value =
                  RMul(RDiv(ocl.Percentage, RInt(OUTPUT_CURRENT_RATED_PERCENTAGE)),
                       OUTPUT_CURRENT_RATED_VALUE)]
        ELSE [S EXCEPT !.Output_Current_Limit.Percentage =
                  RMul(RDiv(ocl.Value, OUTPUT_CURRENT_RATED_VALUE),
                       RInt(OUTPUT_CURRENT_RATED_PERCENTAGE))]

\* The position and the sleep of a send task after a command:
\* asyncio.sleep(INTERVAL_BETWEEN_CAN_MESSAGES), after the last command also
\* asyncio.sleep(INTERVAL_SEND_DATA).
Advance(t) ==
    [t EXCEPT !.at = NextStep(@),
              !.bus = "",
              !.timer = IF NextStep(t.at) = "done"
                        THEN 1 + Ticks(INTERVAL_SEND_DATA) ELSE 1]

\* One command of __can_send_loop (lines 186-217) on the settings S:
\* [exc, frames, Settings].
send_command(at, S) ==
    LET ocl == S.Output_Current_Limit
        res(r, S2) == [exc |-> r.exc, frames |-> r.frames,
                       Settings |-> IF r.exc # "none" THEN S ELSE S2]
    IN  CASE at = "voltage" ->
                res(set_voltage(S.Output_Voltage.Value, S.Output_Voltage.Fixed), S)
          [] at = "current" ->
                IF ocl.Source = ""
                THEN [exc |-> "KeyError", frames |-> <<>>, Settings |-> S]
                ELSE IF ocl.Source = "Percentage"
                THEN res(set_current_percentage(ocl.Percentage, ocl.Fixed), Mirror(S))
                ELSE res(set_current_value(ocl.Value, ocl.Fixed), Mirror(S))
          [] at = "input" -> res(limit_input(S.Input_Current_Limit.Value), S)
          [] at = "walkin" -> res(walk_in(S.Walk_In.Time, S.Walk_In.Enable), S)
          [] at = "restart" ->
                res(restart_after_overvoltage(S.Restart_After_Overvoltage.Enable), S)

\* The task i returns or raises: it leaves the event loop, and the gather
\* awaited learns of it if the task is one of its children.  An exception
\* of a task of an earlier gather goes nowhere.
Finish(i, raised) ==
    /\ tasks' = Remove(tasks, i)
    /\ gather' = IF ~tasks[i].cur THEN gather
                 ELSE IF raised THEN [gather EXCEPT !.exc = TRUE]
                 ELSE [gather EXCEPT ![tasks[i].kind] = TRUE]

\* app.py, lines 11-12: set_output_voltage(voltage = 51, fixed = False) and
\* set_output_current_limit_value(current = 50, fixed = False), before run.
AppInitialValues ==
    /\ pc = "init"
    /\ requested.src = ""
    /\ Settings' = [Settings EXCEPT !.Output_Voltage.Value = RInt(51),
                                    !.Output_Voltage.Fixed = FALSE,
                                    !.Output_Current_Limit.Value = RInt(50),
                                    !.Output_Current_Limit.Fixed = FALSE,
                                    !.Output_Current_Limit.Source = "Value"]
    /\ requested' = [src |-> "Value", value |-> RInt(50), fixed |-> FALSE]
    /\ call' = OpCall("set_output_current_limit_value", RInt(50), FALSE, "none")
    /\ UNCHANGED <<rxvars, loopvars, pc, tx>>

\* run (lines 141-146) and the first pass of __loop.
RunLoop ==
    /\ pc = "init"
    /\ pc' = "running"
    /\ \E debug \in BOOLEAN : Debug' = debug
    /\ tasks' = NewTasks
    /\ call' = OpCall("run", <<0, 1>>, FALSE, "none")
    /\ UNCHANGED <<rxvars, Settings, tx, requested, gather, handle, awaiting,
                   inbound, faults>>

\* A send task builds the frame of its next command, enters the with block
\* of __send_can_message and calls bus.send (lines 161-163): the frame is
\* sent, or bus.send raises can.CanError, caught at line 166, or another
\* exception, which leaves the block and the task.
SendOpen ==
    /\ pc = "running"
    /\ handle = "closed"
    /\ \E i \in DOMAIN tasks : \E bus \in {"sent", "CanError", "Exception"} :
        LET r == send_command(tasks[i].at, Settings)
        IN  /\ tasks[i].kind = "send"
            /\ tasks[i].timer = 0
            /\ tasks[i].at # "done"
            /\ r.frames # <<>>
            /\ bus # "sent" => faults < MaxFaults
            /\ faults' = IF bus = "sent" THEN faults ELSE faults + 1
            /\ Transmit(r, bus = "sent")
            /\ tasks' = [tasks EXCEPT
                   ![i].bus = IF bus = "Exception" THEN "raise" ELSE "ok"]
            /\ call' = OpCall("__send_can_message", <<0, 1>>, FALSE,
                              IF bus = "sent" THEN "none" ELSE bus)
    /\ handle' = "send"
    /\ UNCHANGED <<rxvars, Settings, pc, requested, gather, Debug, awaiting, inbound>>

\* Mutant: a bus that is shut down only when the block is left normally.
SendCloseLeak ==
    /\ pc = "running"
    /\ handle = "send"
    /\ \E i \in DOMAIN tasks :
        /\ tasks[i].kind = "send" /\ tasks[i].bus # ""
        /\ IF tasks[i].bus = "raise"
           THEN /\ Finish(i, TRUE)
                /\ UNCHANGED <<Settings, handle>>
           ELSE /\ tasks' = [tasks EXCEPT ![i] = Advance(@)]
                /\ Settings' = IF tasks[i].at = "current" THEN Mirror(Settings)
                               ELSE Settings
                /\ handle' = "closed"
                /\ UNCHANGED gather
        /\ call' = OpCall("__send_can_message", <<0, 1>>, FALSE,
                          IF tasks[i].bus = "raise" THEN "Exception" ELSE "closed")
    /\ UNCHANGED <<rxvars, pc, tx, requested, Debug, awaiting, inbound, faults>>

\* The with block of __send_can_message is left (line 161): the bus is shut
\* down however the block is left.  Then the exception goes on, or the
\* command returns, the mirror is recomputed after the current-limit
\* command, and the task sleeps.
SendClose ==
    /\ pc = "running"
    /\ handle = "send"
    /\ \E i \in DOMAIN tasks :
        /\ tasks[i].kind = "send" /\ tasks[i].bus # ""
        /\ IF tasks[i].bus = "raise"
           THEN /\ Finish(i, TRUE)
                /\ UNCHANGED Settings
           ELSE /\ tasks' = [tasks EXCEPT ![i] = Advance(@)]
                /\ Settings' = IF tasks[i].at = "current" THEN Mirror(Settings)
                               ELSE Settings
                /\ UNCHANGED gather
        /\ call' = OpCall("__send_can_message", <<0, 1>>, FALSE,
                          IF tasks[i].bus = "raise" THEN "Exception" ELSE "closed")
    /\ handle' = "closed"
    /\ UNCHANGED <<rxvars, pc, tx, requested, Debug, awaiting, inbound, faults>>

\* A send task runs to its next await without a bus: the command builds no
\* frame (a value out of range) or raises, or the Bus constructor raises
\* (line 161).
SendStep ==
    /\ pc = "running"
    /\ handle = "closed"
    /\ \E i \in DOMAIN tasks : \E bus \in {"sent", "CanError", "Exception"} :
        LET r == send_command(tasks[i].at, Settings)
            exc == IF r.exc # "none" THEN r.exc
                   ELSE IF bus = "Exception" THEN "Exception" ELSE "none"
        IN  /\ tasks[i].kind = "send"
            /\ tasks[i].timer = 0
            /\ tasks[i].at # "done"
            /\ bus = "sent" => r.frames = <<>>
            /\ bus # "sent" => (r.frames # <<>> /\ faults < MaxFaults)
            /\ faults' = IF bus = "sent" THEN faults ELSE faults + 1
            /\ Transmit(r, FALSE)
            /\ Settings' = IF bus = "Exception" THEN Settings ELSE r.Settings
            /\ IF exc # "none"
               THEN Finish(i, TRUE)
               ELSE /\ tasks' = [tasks EXCEPT ![i] = Advance(@)]
                    /\ UNCHANGED gather
            /\ call' = OpCall("__can_send_loop", <<0, 1>>, FALSE, exc)
    /\ UNCHANGED <<rxvars, pc, requested, Debug, handle, awaiting, inbound>>

\* The last sleep of a send task is over: the coroutine returns.
SendFinish ==
    /\ pc = "running"
    /\ handle = "closed"
    /\ \E i \in DOMAIN tasks :
        /\ tasks[i].kind = "send" /\ tasks[i].timer = 0 /\ tasks[i].at = "done"
        /\ Finish(i, FALSE)
    /\ call' = OpCall("__can_send_loop", <<0, 1>>, FALSE, "none")
    /\ UNCHANGED <<rxvars, txvars, Debug, handle, awaiting, inbound, faults>>

\* __receive_can_message up to bus.send (lines 226-237): the bus is opened,
\* the notifier thread started with the listener, the read request sent.
RecvOpen ==
    /\ pc = "running"
    /\ handle = "closed"
    /\ \E i \in DOMAIN tasks : \E bus \in {"sent", "CanError", "Exception"} :
        /\ tasks[i].kind = "recv" /\ tasks[i].timer = 0 /\ tasks[i].at = "open"
        /\ bus # "sent" => faults < MaxFaults
        /\ faults' = IF bus = "sent" THEN faults ELSE faults + 1
        /\ \/ /\ bus = "sent"
              /\ handle' = "open"
              /\ tasks' = [tasks EXCEPT ![i].at = "close", ![i].bus = "ok"]
              /\ \E n \in 1..MaxResponses : awaiting' = n
              /\ inbound' = NoInbound
              /\ UNCHANGED gather
           \/ /\ bus = "CanError"
              /\ tasks' = [tasks EXCEPT ![i].at = "sleep",
                                        ![i].timer = Ticks(INTERVAL_RECEIVE_DATA)]
              /\ UNCHANGED <<handle, awaiting, inbound, gather>>
           \/ /\ bus = "Exception"
              /\ Finish(i, TRUE)
              /\ UNCHANGED <<handle, awaiting, inbound>>
        /\ call' = OpCall("__receive_can_message", <<0, 1>>, FALSE,
                          IF bus = "sent" THEN "none" ELSE bus)
    /\ UNCHANGED <<rxvars, txvars, Debug>>

\* The end of the with block (line 237 on): the bus is shut down; then
\* asyncio.sleep(INTERVAL_RECEIVE_DATA) (line 181).
RecvClose ==
    /\ pc = "running"
    /\ handle = "open"
    /\ \E i \in DOMAIN tasks :
        /\ tasks[i].kind = "recv" /\ tasks[i].at = "close"
        /\ tasks' = [tasks EXCEPT ![i].at = "sleep",
                                  ![i].bus = "",
                                  ![i].timer = Ticks(INTERVAL_RECEIVE_DATA)]
    /\ handle' = "closed"
    /\ call' = OpCall("__receive_can_message", <<0, 1>>, FALSE, "none")
    /\ UNCHANGED <<rxvars, txvars, gather, Debug, awaiting, inbound, faults>>

\* The sleep of a receive task is over: the coroutine returns.
RecvFinish ==
    /\ pc = "running"
    /\ handle = "closed"
    /\ \E i \in DOMAIN tasks :
        /\ tasks[i].kind = "recv" /\ tasks[i].timer = 0 /\ tasks[i].at = "sleep"
        /\ Finish(i, FALSE)
    /\ call' = OpCall("__can_receive_loop", <<0, 1>>, FALSE, "none")
    /\ UNCHANGED <<rxvars, txvars, Debug, handle, awaiting, inbound, faults>>

\* Frames the device sends in answer to a read request.
ResponseFrames == {d \in Frames : d[1] = 65 /\ d[4] \in 1..5}

\* The device sends one response frame.  The notifier thread hears it while
\* the bus of __receive_can_message is open and calls the listener
\* registered at lines 230-233: __can_listener_print (prints only) if Debug,
\* else __can_listener_store.  With that bus shut down nothing reads the
\* frame.  The frame and the clock matter to __can_listener_store only.
Deliver ==
    /\ pc = "running"
    /\ awaiting > 0
    /\ LET heard == handle = "open"
           store == heard /\ ~Debug
       IN  \E data \in IF store THEN ResponseFrames ELSE {<<>>} :
           \E unixtime \in IF store THEN 1..MaxTime ELSE {1} :
               LET r == IF store
                        THEN can_listener_store([heap |-> heap,
                                                 ts |-> Received_Timestamps],
                                                data, unixtime)
                        ELSE [heap |-> heap, ts |-> Received_Timestamps,
                              exc |-> "none"]
                   tracked == store /\ NotifierArgs = ListenerParams
               IN  /\ heap' = r.heap
                   /\ Received_Timestamps' = r.ts
                   /\ inbound' = [delivered |-> inbound.delivered + 1,
                                  tracked |-> inbound.tracked
                                                + IF tracked THEN 1 ELSE 0]
                   /\ call' = OpCall(IF ~heard THEN "unheard"
                                     ELSE IF Debug THEN "__can_listener_print"
                                     ELSE "__can_listener_store",
                                     <<0, 1>>, FALSE, r.exc)
                   /\ pre' = heap
    /\ awaiting' = awaiting - 1
    /\ UNCHANGED <<run, Operating_Mode, Postprocessing, txvars, tasks, gather,
                   Debug, handle, faults>>

\* Every task sleeps and __loop awaits: the clock advances by one tick.
Tick ==
    /\ pc = "running"
    /\ handle = "closed"
    /\ ~Resolved
    /\ \A i \in DOMAIN tasks : tasks[i].timer > 0
    /\ tasks' = [i \in DOMAIN tasks |-> [tasks[i] EXCEPT !.timer = @ - 1]]
    /\ UNCHANGED <<rxvars, txvars, call, gather, Debug, handle, awaiting,
                   inbound, faults>>

\* Mutant: no except clause; only a gather that returned is followed by
\* another pass.
LoopRestartUncaught ==
    /\ pc = "running"
    /\ handle = "closed"
    /\ gather.send /\ gather.recv /\ ~gather.exc
    /\ tasks' = [i \in DOMAIN tasks |-> [tasks[i] EXCEPT !.cur = FALSE]] \o NewTasks
    /\ gather' = NoGather
    /\ tx' = <<>>
    /\ call' = OpCall("__loop", <<0, 1>>, FALSE, "none")
    /\ UNCHANGED <<rxvars, Settings, pc, requested, Debug, handle, awaiting,
                   inbound, faults>>

\* __loop (lines 170-176): the await returns, or raises and the exception
\* is dropped; the next pass gathers two new tasks.  Neither gather nor
\* shield cancels the children of the gather that raised.
LoopRestart ==
    /\ pc = "running"
    /\ handle = "closed"
    /\ Resolved
    /\ tasks' = [i \in DOMAIN tasks |-> [tasks[i] EXCEPT !.cur = FALSE]] \o NewTasks
    /\ gather' = NoGather
    /\ tx' = <<>>
    /\ call' = OpCall("__loop", <<0, 1>>, FALSE,
                      IF gather.exc THEN "Exception" ELSE "none")
    /\ UNCHANGED <<rxvars, Settings, pc, requested, Debug, handle, awaiting,
                   inbound, faults>>

NextLoop ==
    \/ AppInitialValues
    \/ RunLoop
    \/ SendOpen
    \/ SendClose
    \/ SendStep
    \/ SendFinish
    \/ RecvOpen
    \/ RecvClose
    \/ RecvFinish
    \/ Deliver
    \/ Tick
    \/ LoopRestart

SpecLoop == Init /\ [][NextLoop]_vars

\* The event loop runs a callback that is ready, and the main thread leaves
\* the with block it has entered.
SpecLoopFair ==
    SpecLoop /\ WF_vars(LoopRestart) /\ WF_vars(RecvClose) /\ WF_vars(SendClose)

(***************************************************************************)
(* Claims about the receive path (SpecRx).                                 *)
(***************************************************************************)
InRange(f, v) == RLe(FieldMin(f), v) /\ RLe(v, FieldMax(f))

LastSample == call.op = "data_processing"

\* C1: an out-of-range sample leaves the stored readout of its field as it
\* was, and the stored readout of every field is its initial value or an
\* in-range sample.
C1_OutOfRangeKeepsReadout ==
    /\ (LastSample /\ ~InRange(call.field, call.value))
           => heap[Readout][call.field] = pre[Readout][call.field]
    /\ \A f \in Fields :
           \/ heap[Readout][f] = readDictionnaryEntry
           \/ \E v \in Samples(f) : InRange(f, v) /\ heap[Readout][f] = PyNum(v)

\* Reached: an above-range sample has been processed 32 times in a row.
C1_Witness ==
    /\ LastSample
    /\ RLt(FieldMax(call.field), call.value)
    /\ run.n = MAX_COUNT_INVALID_DATA

\* C2: once MAX_COUNT_INVALID_DATA consecutive out-of-range samples of a
\* field have been processed, its status is LOW (below the range) or HIGH
\* (above the range).
C2_StatusLowHighAtThreshold ==
    (LastSample /\ ~InRange(run.field, run.value) /\ run.n >= MAX_COUNT_INVALID_DATA)
        => heap[Status][run.field] =
               PyStr(IF RLt(run.value, FieldMin(run.field)) THEN "LOW" ELSE "HIGH")

\* C3: after an in-range sample of a field has been processed, the invalid
\* counter of the field is 0.
C3_InRangeResetsInvalid ==
    (LastSample /\ InRange(call.field, call.value))
        => heap[Counter_Invalid][call.field] = PyNum(<<0, 1>>)

\* C4: once the same in-range value of a field has been processed
\* MAX_COUNT_UNCHANGED_DATA times in a row, the status of the field is STUCK.
C4_StuckOn32nd ==
    (LastSample /\ InRange(run.field, run.value) /\ run.n >= MAX_COUNT_UNCHANGED_DATA)
        => heap[Status][run.field] = PyStr("STUCK")

\* C5: after an in-range sample that differs from the stored readout, the
\* readout is the sample, the unchanged counter is 0 and the status is
\* NORMAL, all three together.
C5_NewValueStored ==
    (LastSample /\ InRange(call.field, call.value)
                /\ ~PyEq(call.value, pre[Readout][call.field]))
        => /\ heap[Readout][call.field] = PyNum(call.value)
           /\ heap[Counter_Unchanged][call.field] = PyNum(<<0, 1>>)
           /\ heap[Status][call.field] = PyStr("NORMAL")

\* C6: a sample or a frame of one field leaves the readout, the counters and
\* the status of every other field as they were.
C6_FieldsIndependent ==
    (call.op \in {"data_processing", "can_listener_store"})
        => \A g \in Fields \ {call.field} : \A o \in Objects :
               heap[o][g] = pre[o][g]

\* Reached: samples of Temperature processed twice in a row, after a sample
\* of another field.
C6_Witness ==
    /\ LastSample
    /\ call.field = "Temperature"
    /\ run.n = 2

(***************************************************************************)
(* Claims about the send path (SpecTx).                                    *)
(***************************************************************************)
\* The class of a command frame, by its parameter byte data[3].
Rank(data) ==
    CASE data[4] \in {33, 36} -> 1
      [] data[4] \in {34, 25} -> 2
      [] data[4] = 26 -> 3
      [] data[4] = 50 -> 4
      [] data[4] = 57 -> 5
      [] OTHER -> 0

\* The 32-bit pattern of the four payload bytes, first byte most significant.
PayloadBits(data) ==
    data[5] * 16777216 + data[6] * 65536 + data[7] * 256 + data[8]

InVoltageRange(v) == RLe(OUTPUT_VOLTAGE_MIN, v) /\ RLe(v, OUTPUT_VOLTAGE_MAX)

InCurrentRange(v) == RLe(OUTPUT_CURRENT_MIN, v) /\ RLe(v, OUTPUT_CURRENT_MAX)

InPercentageRange(v) ==
    /\ RLe(RInt(OUTPUT_CURRENT_RATED_PERCENTAGE_MIN), v)
    /\ RLe(v, RInt(OUTPUT_CURRENT_RATED_PERCENTAGE_MAX))

\* C7: the frames transmitted in one send cycle are in the order voltage,
\* output current limit, input current limit, walk-in, restart after
\* overvoltage: a later frame is of a later class.
C7_CommandOrder ==
    \A i, j \in DOMAIN tx :
        (i < j /\ tx[i].sent /\ tx[j].sent) => Rank(tx[i].data) < Rank(tx[j].data)

\* Reached: a complete cycle in which all five commands were transmitted.
C7_Witness ==
    /\ pc = "done"
    /\ Len(tx) = 5
    /\ \A i \in DOMAIN tx : tx[i].sent

\* C8: every voltage frame carries the pattern of a voltage in [41.0, 58.5],
\* every current-limit frame the pattern of a fraction in [0.10, 1.21], and
\* a stored voltage outside [41.0, 58.5], or an authoritative current value
\* outside [5.5, 62.5], has no frame in the cycle once its step has run.
C8_NoFrameOutOfRange ==
    /\ \A i \in DOMAIN tx :
        /\ Rank(tx[i].data) = 1 =>
              /\ Len(tx[i].data) = 8
              /\ F32Bits(OUTPUT_VOLTAGE_MIN) <= PayloadBits(tx[i].data)
              /\ PayloadBits(tx[i].data) <= F32Bits(OUTPUT_VOLTAGE_MAX)
        /\ Rank(tx[i].data) = 2 =>
              /\ Len(tx[i].data) = 8
              /\ F32Bits(<<OUTPUT_CURRENT_RATED_PERCENTAGE_MIN, 100>>)
                     <= PayloadBits(tx[i].data)
              /\ PayloadBits(tx[i].data)
                     <= F32Bits(<<OUTPUT_CURRENT_RATED_PERCENTAGE_MAX, 100>>)
    /\ (pc \notin {"init", "voltage"}
            /\ ~InVoltageRange(Settings.Output_Voltage.Value))
           => \A i \in DOMAIN tx : Rank(tx[i].data) # 1
    /\ (pc \notin {"init", "voltage", "current"}
            /\ Settings.Output_Current_Limit.Source = "Value"
            /\ ~InCurrentRange(Settings.Output_Current_Limit.Value))
           => \A i \in DOMAIN tx : Rank(tx[i].data) # 2

\* Reached: with a stored voltage of 60 V and an authoritative current value
\* of 70 A, the cycle has passed the voltage, the current-limit and the
\* input-current step, and the one frame built is the input current limit.
C8_Witness ==
    /\ pc = "walkin"
    /\ Settings.Output_Voltage.Value = RInt(60)
    /\ Settings.Output_Current_Limit.Source = "Value"
    /\ Settings.Output_Current_Limit.Value = RInt(70)
    /\ Len(tx) = 1
    /\ tx[1].sent

\* C9: set_output_voltage with a voltage outside [41.0, 58.5] raises a
\* validation error to its caller.
C9_OutOfRangeVoltageRejected ==
    (call.op = "set_output_voltage" /\ ~InVoltageRange(call.value))
        => call.exc = "LocalValidationError"

\* C10: after set_output_current_limit_percentage(pct, fixed) with pct in
\* [10, 121], a complete send cycle in which no send failed has transmitted
\* the frame [0x03, 0xF0, 0x00, p] + bytes of pct/100, with p = 0x22
\* (not fixed) or 0x19 (fixed).
C10_PercentageTransmitted ==
    (/\ pc = "done"
     /\ requested.src = "Percentage"
     /\ InPercentageRange(requested.value)
     /\ \A i \in DOMAIN tx : tx[i].sent)
        => \E i \in DOMAIN tx :
               tx[i].data = <<3, 240, 0, IF requested.fixed THEN 25 ELSE 34>>
                              \o float_to_bytearray(RDiv(requested.value, RInt(100))).bytes

\* C11: after set_output_current_limit_value(a, fixed) with a in
\* [5.5, 62.5], a complete send cycle has handed to the bus the 8-byte
\* frame [0x03, 0xF0, 0x00, p] + pattern of (a / 62.5 * 121) / 100, with
\* p = 0x22 (not fixed) or 0x19 (fixed); for a = 31.25 and fixed the frame
\* is 03 F0 00 19 3F 1A E1 48 (the pattern of 0.605).
C11_ValueTransmitted ==
    (pc = "done" /\ requested.src = "Value" /\ InCurrentRange(requested.value))
        => /\ \E i \in DOMAIN tx :
                /\ Len(tx[i].data) = 8
                /\ SubSeq(tx[i].data, 1, 4) =
                       <<3, 240, 0, IF requested.fixed THEN 25 ELSE 34>>
                /\ PayloadBits(tx[i].data) =
                       F32Bits(RDiv(RMul(RDiv(requested.value, OUTPUT_CURRENT_RATED_VALUE),
                                         RInt(OUTPUT_CURRENT_RATED_PERCENTAGE)),
                                    RInt(100)))
           /\ (requested.value = <<125, 4>> /\ requested.fixed)
                => \E i \in DOMAIN tx :
                       tx[i].data = <<3, 240, 0, 25, 63, 26, 225, 72>>

\* Reached: the cycle after set_output_current_limit_value(31.25, True) is
\* complete and its current-limit frame was transmitted.
C11_Witness ==
    /\ pc = "done"
    /\ requested = [src |-> "Value", value |-> <<125, 4>>, fixed |-> TRUE]
    /\ \E i \in DOMAIN tx : tx[i].sent /\ Rank(tx[i].data) = 2

\* C12: once the current-limit step of a cycle has run, the representation
\* that is not authoritative is the mirror of the authoritative one, and
\* the authoritative one is still the setpoint the operator last requested.
C12_MirrorKeepsAuthoritative ==
    (pc \in {"input", "walkin", "restart", "done"})
        => LET ocl == Settings.Output_Current_Limit
           IN  /\ ocl.Source = "Percentage" =>
                     /\ ocl.Value = RMul(RDiv(ocl.Percentage,
                                              RInt(OUTPUT_CURRENT_RATED_PERCENTAGE)),
                                         OUTPUT_CURRENT_RATED_VALUE)
                     /\ ocl.Percentage = requested.value
               /\ ocl.Source = "Value" =>
                     /\ ocl.Percentage = RMul(RDiv(ocl.Value, OUTPUT_CURRENT_RATED_VALUE),
                                              RInt(OUTPUT_CURRENT_RATED_PERCENTAGE))
                     /\ ocl.Value = requested.value
\* C13: after a sample of Output_Current_Value or Output_Current_Limit that
\* lies within the field's bounds, the operating mode is "Current_Limit" if
\* the stored Output_Current_Value exceeds 0.95 times the stored
\* Output_Current_Limit, and "Voltage" otherwise.
C13_ModeRecomputed ==
    (/\ LastSample
     /\ call.field \in {"Output_Current_Value", "Output_Current_Limit"}
     /\ InRange(call.field, call.value))
        => Operating_Mode =
               IF RLt(RMul(<<19, 20>>, heap[Readout]["Output_Current_Limit"].n),
                      heap[Readout]["Output_Current_Value"].n)
               THEN "Current_Limit" ELSE "Voltage"

\* C16: a frame whose data[0] is not 0x41, or whose selector is none of
\* 0x01..0x05, raises nothing in the listener and leaves the readouts,
\* counters, statuses and postprocessing values as they were.
C16_OtherFramesIgnored ==
    (call.op = "can_listener_store" /\ (~call.fixed \/ call.field = ""))
        => /\ call.exc = "none"
           /\ heap = pre
           /\ Postprocessing = postprocessingDictionnary
(***************************************************************************)
(* Claims about the voltage encoder (SpecEnc).                             *)
(***************************************************************************)
Encoded == pc = "encoded" /\ call.op = "__set_voltage"

\* The frame of the voltage command: the four header bytes, then the four
\* bytes b1..b4 of the payload.
VoltageFrame(fixed, b1, b2, b3, b4) ==
    <<3, 240, 0, IF fixed THEN 36 ELSE 33, b1, b2, b3, b4>>

C20_ChangeWhileRunningPickedUp ==
    /\ pc # "init" => ENABLED AppInfiniteLoop
    /\ \A i \in DOMAIN tx :
           Rank(tx[i].data) = 1 =>
               /\ PayloadBits(tx[i].data) = F32Bits(Settings.Output_Voltage.Value)
               /\ tx[i].data[4] = IF Settings.Output_Voltage.Fixed THEN 36 ELSE 33
(***************************************************************************)
(* Claims about the event loop (SpecLoop, SpecLoopFair).                   *)
(***************************************************************************)
\* A child of the gather awaited has raised.
Failed == pc = "running" /\ gather.exc

\* __loop has just gathered a new send task and a new receive task.
FreshRound ==
    /\ pc = "running"
    /\ gather = NoGather
    /\ \E i \in DOMAIN tasks : tasks[i] = Task("send", "voltage")
    /\ \E i \in DOMAIN tasks : tasks[i] = Task("recv", "open")

Live(kind) == {i \in DOMAIN tasks : tasks[i].kind = kind}

\* C14: an exception raised in the send task or in the receive task does
\* not end the poll loop: once running it keeps running, and after the
\* exception __loop eventually gathers a new send task and a new receive
\* task.
C14_FailureNeverFatal ==
    /\ [][pc = "running" => pc' = "running"]_vars
    /\ Failed ~> FreshRound

\* Reached: __loop has dropped an exception and gathered two new tasks.
C14_Witness ==
    /\ call.op = "__loop" /\ call.exc = "Exception"
    /\ FreshRound

\* C15: every response frame the device has sent since the read request of
\* the current receive cycle has been passed by the listener to
\* data_processing.
C15_ResponsesTracked ==
    inbound.tracked = inbound.delivered

\* C18: at most one send task and at most one receive task are live.
C18_OneTaskOfEachKind ==
    /\ Cardinality(Live("send")) <= 1
    /\ Cardinality(Live("recv")) <= 1

\* C19: when the receive task of the gather has returned and the send task
\* has not, the next receive cycle can start, and the other way round.
C19_NoTaskBlocksTheOther ==
    (pc = "running" /\ handle = "closed" /\ ~gather.exc)
        => /\ (gather.recv /\ ~gather.send) => ENABLED LoopRestart
           /\ (gather.send /\ ~gather.recv) => ENABLED LoopRestart
\* The tasks that hold an open bus.
Holders == {i \in DOMAIN tasks : tasks[i].bus # ""}

\* C21: a task that sleeps holds no bus; a bus that is open is held by the
\* one task that runs, inside its with block; at most one bus is open, and
\* none is when no task holds one, also after a task has failed.
C21_HandleScoped ==
    /\ \A i \in DOMAIN tasks : tasks[i].timer > 0 => tasks[i].bus = ""
    /\ handle = "closed" <=> Holders = {}
    /\ Cardinality(Holders) <= 1
    /\ \A i \in Holders :
           handle = IF tasks[i].kind = "send" THEN "send" ELSE "open"

\* Reached: a bus call of a send task has raised inside the with block, the
\* task is gone and a receive task sleeps.
C21_Witness ==
    /\ call.op = "__send_can_message" /\ call.exc = "Exception"
    /\ handle = "closed"
    /\ \E i \in DOMAIN tasks : tasks[i].kind = "recv" /\ tasks[i].at = "sleep"
\* C22: data_analysis with a stored Output_Current_Limit of 0 raises
\* nothing, leaves the percentage of the limit as it was and recomputes the
\* percentage of the rated current and the output power.
C22_NoDivisionByZero ==
    (call.op = "data_analysis" /\ heap[Readout]["Output_Current_Limit"].n[1] = 0)
        => LET ocv == heap[Readout]["Output_Current_Value"].n
               ov  == heap[Readout]["Output_Voltage"].n
           IN  /\ call.exc = "none"
               /\ Postprocessing.Output_Current.Percent_Of_Limit =
                      postprocessingDictionnary.Output_Current.Percent_Of_Limit
               /\ Postprocessing.Output_Current.Percent_Of_Rated =
                      RMul(RDiv(ocv, OUTPUT_CURRENT_RATED_VALUE), RInt(100))
               /\ Postprocessing.Output_Power.Value = RMul(ov, ocv)

\* C23: every voltage, current-limit and input-current frame handed to the
\* bus has 8 data bytes, and no command raises ValueError in the encoding.
C23_FourPayloadBytes ==
    /\ \A i \in DOMAIN tx :
           Rank(tx[i].data) \in {1, 2, 3} => Len(tx[i].data) = 8
    /\ call.exc # "ValueError"

\* C24: as long as the operator has set no current limit, no step of a send
\* cycle raises an exception.
C24_FreshCycleCompletes ==
    (requested.src = "" /\ pc # "init")
        => /\ pc # "raised"
           /\ call.exc = "none"

\* The stored setpoint of a command is out of the command's range.
RejectedVoltage == ~InVoltageRange(Settings.Output_Voltage.Value)

RejectedCurrent ==
    LET ocl == Settings.Output_Current_Limit
    IN  \/ ocl.Source = "Percentage" /\ ~InPercentageRange(ocl.Percentage)
        \/ ocl.Source # "Percentage" /\ ~InCurrentRange(ocl.Value)

\* C25: with a stored voltage or current limit out of range the send cycle
\* is not aborted: no step raises, the complete cycle has handed no frame of
\* the rejected command to the bus, but those of the input current limit,
\* of walk-in and of restart-after-overvoltage, in this order, and the next
\* cycle can start.
C25_RejectionDoesNotAbort ==
    (pc # "init" /\ (RejectedVoltage \/ RejectedCurrent))
        => /\ pc # "raised"
           /\ pc = "done" =>
                /\ RejectedVoltage => \A i \in DOMAIN tx : Rank(tx[i].data) # 1
                /\ RejectedCurrent => \A i \in DOMAIN tx : Rank(tx[i].data) # 2
                /\ \E i, j, k \in DOMAIN tx :
                       /\ i < j /\ j < k
                       /\ Rank(tx[i].data) = 3
                       /\ Rank(tx[j].data) = 4
                       /\ Rank(tx[k].data) = 5
                /\ ENABLED Loop
=============================================================================
